---------------------------- MODULE Spec2Model ----------------------------
(***************************************************************************)
(* A model of godfs (github.com/darshanmadesh/godfs), phase 1:             *)
(*                                                                         *)
(*   - InMemoryMetadataStore (internal/master/metadata.go): a map from     *)
(*     filename to *FileMeta guarded by one sync.RWMutex;                  *)
(*   - Server (package master): the gRPC handlers Upload, Download, List,  *)
(*     Delete and Stat over the store and a data directory of blobs.       *)
(*                                                                         *)
(* Pointers are addresses of a heap, so that a copy and an alias are       *)
(* different things.  The data directory is a table of directory entries   *)
(* over inodes, so that a file that is truncated or unlinked while a       *)
(* handle is open behaves as it does on a POSIX file system.               *)
(***************************************************************************)
EXTENDS Integers, Sequences, FiniteSets, TLC

VARIABLES
    files,      \* InMemoryMetadataStore.files : filename -> address (NoAddr: no key)
    heap,       \* the FileMeta objects : address -> record
    mu,         \* InMemoryMetadataStore.mu : [writer, readers]
    clock,      \* what time.Now() returns
    cl,         \* direct callers of the MetadataStore interface
    dataDir,    \* whether the data directory exists
    dir,        \* the data directory : filename -> inode (NoInode: no entry)
    data,       \* inode -> bytes
    up,         \* Upload handlers (one per stream)
    dl,         \* Download handlers
    del,        \* Delete handlers
    resp,       \* the response of the unary call that has just returned
    expect      \* ghost: filename -> bytes of the upload that committed it, untouched since

storeVars  == <<files, heap, mu, clock, cl>>
serverVars == <<dataDir, dir, data, up, dl, del, resp, expect>>
vars       == <<files, heap, mu, clock, cl, dataDir, dir, data, up, dl, del, resp, expect>>

---------------------------------------------------------------------------
(* Bounds of the model *)

MaxTime == 2        \* the clock runs from 1 to MaxTime
MaxSize == 1        \* sizes a direct caller of the store puts in a record
MaxArgTime == 1     \* timestamps a direct caller of the store puts in a record
MaxAddr == 11       \* heap addresses
MaxInode == 8       \* inodes of the data directory
MaxByte == 2        \* file bytes are 1..MaxByte (0 is the byte of a hole)
MaxBlob == 2        \* a blob holds at most MaxBlob bytes
MaxChunk == 2       \* an upload chunk message holds at most MaxChunk bytes
MaxDecl == 1        \* the size an upload's metadata message declares is 0..MaxDecl
TicksPerSec == 2    \* clock ticks per second (time.Time is finer than Unix seconds)

(* const defaultChunkSize = 1024 * 1024 of the server, scaled to the blobs
   of the model: the longest blob is one byte longer than a chunk, so that
   a Download sends it in more than one chunk message. *)
defaultChunkSize == MaxBlob - 1

---------------------------------------------------------------------------
(* Filenames are sequences of characters *)

NameEmpty == << >>
NameA     == <<"a">>
NameAB    == <<"a", "b">>
NameB     == <<"b">>
NameSlash == <<"a", "/", "b">>

\* every filename of the model
Names == {NameEmpty, NameA, NameAB, NameB, NameSlash}
\* the filenames direct callers of the store put in a record
CallerNames == {NameA, NameAB}
Prefixes == {NameEmpty, NameA, NameAB, NameB}

NoAddr == 0

\* no unary call has just returned
NoResp == [op |-> "none"]
Addr == 1 .. MaxAddr

\* errors of metadata.go:12-15
ErrNil == "nil"
ErrFileNotFound == "file not found"
ErrFileAlreadyExists == "file already exists"

\* the zero value of FileMeta; time 0 is the zero time.Time (IsZero)
ZeroRec == [Filename |-> NameEmpty, Size |-> 0, CreatedAt |-> 0, ModifiedAt |-> 0]

FileMeta(name, size, created, modified) ==
    [Filename |-> name, Size |-> size, CreatedAt |-> created, ModifiedAt |-> modified]

Max(a, b) == IF a >= b THEN a ELSE b
Min(a, b) == IF a <= b THEN a ELSE b

Range(s) == {s[i] : i \in 1 .. Len(s)}

---------------------------------------------------------------------------
(* The heap *)

\* addresses the store's map holds
StorePtrs(fs) == {fs[n] : n \in DOMAIN fs} \ {NoAddr}

\* addresses a caller holds: the record it passed and the records it was returned
Held(c) == ({c.arg} \cup Range(c.res)) \ {NoAddr}

CallerPtrs(cs) == UNION {Held(cs[c]) : c \in DOMAIN cs}

Reach(fs, cs) == StorePtrs(fs) \cup CallerPtrs(cs)

\* garbage collection: an unreachable object is gone
Collect(h, reach) == [a \in Addr |-> IF a \in reach THEN h[a] ELSE ZeroRec]

(* Allocation.  A new object gets an address that nothing reaches; which
   one is not observable, so the allocator is deterministic: the store's
   object for a key goes to the key's slot, a caller's object to the
   caller's slots, and when these are taken, to the lowest free address. *)
NameSeq == <<NameEmpty, NameA, NameAB, NameB, NameSlash>>
Slot(name) == CHOOSE i \in 1 .. Len(NameSeq) : NameSeq[i] = name
CallerSlots(c) == {Len(NameSeq) + 2 * (c - 1) + k : k \in 1 .. 2}
LowestIn(S) == CHOOSE a \in S : \A b \in S : a <= b

\* a new object of the store, for key `name`
NewStoreAddr(name, used) ==
    IF Slot(name) \notin used THEN Slot(name) ELSE LowestIn(Addr \ used)

\* a new object of caller c
NewCallerAddr(c, used) ==
    IF CallerSlots(c) \ used # {} THEN LowestIn(CallerSlots(c) \ used)
    ELSE LowestIn(Addr \ used)

\* what Get and List can return: the record stored under each key
View == [n \in {m \in DOMAIN files : files[m] # NoAddr} |-> heap[files[n]]]


---------------------------------------------------------------------------
(* InMemoryMetadataStore: the bodies of its methods, on a map fs and a heap h *)

\* a faulty filter: the end of the filename is compared, not its start
HasSuffix(filename, prefix) ==
    \/ prefix = << >>
    \/ /\ Len(filename) >= Len(prefix)
       /\ SubSeq(filename, Len(filename) - Len(prefix) + 1, Len(filename)) = prefix

\* List's filter: prefix == "" || len(filename) >= len(prefix) && filename[:len(prefix)] == prefix
HasPrefix(filename, prefix) ==
    \/ prefix = << >>
    \/ /\ Len(filename) >= Len(prefix)
       /\ SubSeq(filename, 1, Len(prefix)) = prefix

\* _, exists := s.files[name]
StoreExists(fs, name) == fs[name] # NoAddr

\* Create: "Set timestamps if not provided", on the caller's record
CreateStamp(h, p, now) ==
    [h EXCEPT ![p].CreatedAt  = IF @ = 0 THEN now ELSE @,
              ![p].ModifiedAt = IF @ = 0 THEN now ELSE @]

\* Create: stored := *meta; s.files[meta.Filename] = &stored   (q: the new object)
CreateInsert(fs, h, p, q) ==
    [files |-> [fs EXCEPT ![h[p].Filename] = q],
     heap  |-> [h EXCEPT ![q] = h[p]]]

\* a faulty Get: return meta, the store's own object
GetAlias(fs, h, name, q) == [ptr |-> fs[name], heap |-> h]

\* Get: result := *meta; return &result   (q: the new object)
GetCopy(fs, h, name, q) ==
    [ptr |-> q, heap |-> [h EXCEPT ![q] = h[fs[name]]]]

\* a faulty Update: the modification time is not refreshed
UpdateNoStamp(h, p, now) == h

\* Update: meta.ModifiedAt = time.Now(), on the caller's record
UpdateStamp(h, p, now) == [h EXCEPT ![p].ModifiedAt = now]

\* Update: stored := *meta; s.files[meta.Filename] = &stored
UpdateInsert(fs, h, p, q) ==
    [files |-> [fs EXCEPT ![h[p].Filename] = q],
     heap  |-> [h EXCEPT ![q] = h[p]]]

\* Delete: delete(s.files, filename)
DeleteKey(fs, name) == [fs EXCEPT ![name] = NoAddr]

\* the orders in which `range s.files` can visit the keys
Perms(S) ==
    {s \in [1 .. Cardinality(S) -> S] : \A i, j \in 1 .. Cardinality(S) : i # j => s[i] # s[j]}

KeyOrders(fs) == Perms({n \in DOMAIN fs : fs[n] # NoAddr})

\* List: the loop over the map, visiting the keys in `order`; each match is
\* copied into a new object and its address appended to the result
RECURSIVE ListLoop(_, _, _, _, _, _, _)
ListLoop(fs, h, prefix, order, c, used, acc) ==
    IF order = << >> THEN [res |-> acc, heap |-> h]
    ELSE LET n == Head(order)
             q == NewCallerAddr(c, used)
         IN IF HasPrefix(n, prefix)
            THEN ListLoop(fs, [h EXCEPT ![q] = h[fs[n]]], prefix, Tail(order),
                          c, used \cup {q}, Append(acc, q))
            ELSE ListLoop(fs, h, prefix, Tail(order), c, used, acc)

\* a faulty lock: Lock does not wait
NoLock(m) == TRUE

\* a faulty read lock: RLock does not wait for the writer
RLockFree(m) == TRUE

\* sync.RWMutex: Lock waits for no writer and no reader, RLock for no writer
NoCaller == 0
CanLock(m) == m.writer = NoCaller /\ m.readers = {}
CanRLock(m) == m.writer = NoCaller

---------------------------------------------------------------------------
(* Direct callers of the MetadataStore interface, each a goroutine.  A call
   is: invocation, the lock, the steps of the body, the deferred unlock and
   return.  A caller keeps the pointers of its last call until its next. *)

Callers == {1, 2}
WriteOps == {"Create", "Update", "Delete"}
ReadOps == {"Get", "List", "Exists"}

ArgTimes == 0 .. MaxArgTime
\* records with no timestamp set
PlainRecs == [Filename : CallerNames, Size : 0 .. MaxSize, CreatedAt : {0}, ModifiedAt : {0}]
\* the records a caller passes: for NameA any record, for the other names a
\* record of size 0 with no timestamp set
ArgRecs ==
    [Filename : {NameA}, Size : 0 .. MaxSize, CreatedAt : ArgTimes, ModifiedAt : ArgTimes]
    \cup {r \in PlainRecs : r.Size = 0}
\* the records caller c passes when callers run concurrently
OwnRecs(c) == {r \in PlainRecs : r.Size = (c - 1) % (MaxSize + 1)}

IdleCaller == [pc |-> "idle", op |-> "none", name |-> NameEmpty, arg |-> NoAddr,
               res |-> << >>, ret |-> "none",
               argv |-> ZeroRec,    \* ghost: the record as the caller passed it
               fresh |-> FALSE,     \* ghost: the name had no record at the invocation
               over |-> FALSE]      \* ghost: invoked during the other caller's Create
                                    \*        of the same name, itself fresh

\* what a caller writes through a pointer it holds: every field gets a
\* value that no record of the store has
Scribble(r) ==
    [Filename   |-> NameB,
     Size       |-> MaxSize + 1,
     CreatedAt  |-> MaxTime + 1,
     ModifiedAt |-> MaxTime + 1]

\* a call is between its invocation and its return
InCall(r) == r.pc \in {"lock", "check", "store", "read", "unlock"}

\* ghost: caller c invokes Create(name) for a name without record while
\* another caller is inside a Create of the same name that it invoked when
\* the name had no record
Overlaps(c, op, name) ==
    /\ op = "Create"
    /\ ~StoreExists(files, name)
    /\ \E o \in DOMAIN cl \ {c} :
          InCall(cl[o]) /\ cl[o].op = "Create" /\ cl[o].name = name /\ cl[o].fresh

\* the callers once c has invoked the call c1: the calls of the others no
\* longer overlap the call c has left
Invoke(c, c1) == [o \in DOMAIN cl |-> IF o = c THEN c1 ELSE [cl[o] EXCEPT !.over = FALSE]]

\* s.Create(meta) / s.Update(meta) is called with a record the caller built
CallWrite(c, op, rec) ==
    /\ cl[c].pc \in {"idle", "ret"}
    /\ op \in {"Create", "Update"}
    /\ LET p  == NewCallerAddr(c, StorePtrs(files) \cup CallerPtrs([cl EXCEPT ![c] = IdleCaller]))
           c1 == [IdleCaller EXCEPT !.pc = "lock", !.op = op, !.name = rec.Filename,
                                    !.arg = p, !.argv = rec,
                                    !.fresh = ~StoreExists(files, rec.Filename),
                                    !.over = Overlaps(c, op, rec.Filename)]
           cs == Invoke(c, c1)
       IN /\ cl' = cs
          /\ heap' = Collect([heap EXCEPT ![p] = rec], Reach(files, cs))
    /\ UNCHANGED <<files, mu, clock>>
    /\ UNCHANGED serverVars

\* s.Get(name) / s.Delete(name) / s.Exists(name) / s.List(prefix) is called
CallName(c, op, name) ==
    /\ cl[c].pc \in {"idle", "ret"}
    /\ op \in {"Get", "Delete", "Exists", "List"}
    /\ LET c1 == [IdleCaller EXCEPT !.pc = "lock", !.op = op, !.name = name,
                                    !.fresh = ~StoreExists(files, name)]
           cs == Invoke(c, c1)
       IN /\ cl' = cs
          /\ heap' = Collect(heap, Reach(files, cs))
    /\ UNCHANGED <<files, mu, clock>>
    /\ UNCHANGED serverVars

\* s.mu.Lock()
Lock(c) ==
    /\ cl[c].pc = "lock"
    /\ cl[c].op \in WriteOps
    /\ CanLock(mu)
    /\ mu' = [mu EXCEPT !.writer = c]
    /\ cl' = [cl EXCEPT ![c].pc = "check"]
    /\ UNCHANGED <<files, heap, clock>>
    /\ UNCHANGED serverVars

\* s.mu.RLock()
RLock(c) ==
    /\ cl[c].pc = "lock"
    /\ cl[c].op \in ReadOps
    /\ CanRLock(mu)
    /\ mu' = [mu EXCEPT !.readers = @ \cup {c}]
    /\ cl' = [cl EXCEPT ![c].pc = "read"]
    /\ UNCHANGED <<files, heap, clock>>
    /\ UNCHANGED serverVars

\* a faulty Create: the existence check is missing
CreateUnchecked(c) ==
    /\ cl[c].pc = "check"
    /\ cl[c].op = "Create"
    /\ cl' = [cl EXCEPT ![c].pc = "store"]
    /\ UNCHANGED <<files, heap, mu, clock>>
    /\ UNCHANGED serverVars

\* Create: if _, exists := s.files[meta.Filename]; exists { return ErrFileAlreadyExists }
CreateCheck(c) ==
    /\ cl[c].pc = "check"
    /\ cl[c].op = "Create"
    /\ IF StoreExists(files, heap[cl[c].arg].Filename)
       THEN cl' = [cl EXCEPT ![c].pc = "unlock", ![c].ret = ErrFileAlreadyExists]
       ELSE cl' = [cl EXCEPT ![c].pc = "store"]
    /\ UNCHANGED <<files, heap, mu, clock>>
    /\ UNCHANGED serverVars

\* Create: the timestamps, the copy, the insertion; return nil
CreateStore(c) ==
    /\ cl[c].pc = "store"
    /\ cl[c].op = "Create"
    /\ LET p  == cl[c].arg
           h1 == CreateStamp(heap, p, clock)
           q  == NewStoreAddr(h1[p].Filename, Reach(files, cl))
           r  == CreateInsert(files, h1, p, q)
       IN /\ files' = r.files
          /\ heap' = Collect(r.heap, Reach(r.files, cl))
    /\ cl' = [cl EXCEPT ![c].pc = "unlock", ![c].ret = ErrNil]
    /\ UNCHANGED <<mu, clock>>
    /\ UNCHANGED serverVars

\* Update: if _, exists := s.files[meta.Filename]; !exists { return ErrFileNotFound }
UpdateCheck(c) ==
    /\ cl[c].pc = "check"
    /\ cl[c].op = "Update"
    /\ IF ~StoreExists(files, heap[cl[c].arg].Filename)
       THEN cl' = [cl EXCEPT ![c].pc = "unlock", ![c].ret = ErrFileNotFound]
       ELSE cl' = [cl EXCEPT ![c].pc = "store"]
    /\ UNCHANGED <<files, heap, mu, clock>>
    /\ UNCHANGED serverVars

\* Update: the modification time, the copy, the overwrite; return nil
UpdateStore(c) ==
    /\ cl[c].pc = "store"
    /\ cl[c].op = "Update"
    /\ LET p  == cl[c].arg
           h1 == UpdateStamp(heap, p, clock)
           q  == NewStoreAddr(h1[p].Filename,
                              Reach(DeleteKey(files, h1[p].Filename), cl))
           r  == UpdateInsert(files, h1, p, q)
       IN /\ files' = r.files
          /\ heap' = Collect(r.heap, Reach(r.files, cl))
    /\ cl' = [cl EXCEPT ![c].pc = "unlock", ![c].ret = ErrNil]
    /\ UNCHANGED <<mu, clock>>
    /\ UNCHANGED serverVars

\* Delete: if _, exists := s.files[filename]; !exists { return ErrFileNotFound }
DeleteCheck(c) ==
    /\ cl[c].pc = "check"
    /\ cl[c].op = "Delete"
    /\ IF ~StoreExists(files, cl[c].name)
       THEN cl' = [cl EXCEPT ![c].pc = "unlock", ![c].ret = ErrFileNotFound]
       ELSE cl' = [cl EXCEPT ![c].pc = "store"]
    /\ UNCHANGED <<files, heap, mu, clock>>
    /\ UNCHANGED serverVars

\* Delete: delete(s.files, filename); return nil
DeleteStore(c) ==
    /\ cl[c].pc = "store"
    /\ cl[c].op = "Delete"
    /\ files' = DeleteKey(files, cl[c].name)
    /\ heap' = Collect(heap, Reach(files', cl))
    /\ cl' = [cl EXCEPT ![c].pc = "unlock", ![c].ret = ErrNil]
    /\ UNCHANGED <<mu, clock>>
    /\ UNCHANGED serverVars

\* Get: the lookup and the copy
GetRead(c) ==
    /\ cl[c].pc = "read"
    /\ cl[c].op = "Get"
    /\ IF ~StoreExists(files, cl[c].name)
       THEN /\ cl' = [cl EXCEPT ![c].pc = "unlock", ![c].ret = ErrFileNotFound]
            /\ heap' = heap
       ELSE LET r == GetCopy(files, heap, cl[c].name, NewCallerAddr(c, Reach(files, cl)))
            IN /\ cl' = [cl EXCEPT ![c].pc = "unlock", ![c].ret = ErrNil,
                                   ![c].res = <<r.ptr>>]
               /\ heap' = r.heap
    /\ UNCHANGED <<files, mu, clock>>
    /\ UNCHANGED serverVars

\* List: the loop over the map, in any order of its keys
ListRead(c) ==
    /\ cl[c].pc = "read"
    /\ cl[c].op = "List"
    /\ \E order \in KeyOrders(files) :
          LET r == ListLoop(files, heap, cl[c].name, order, c, Reach(files, cl), << >>)
          IN /\ cl' = [cl EXCEPT ![c].pc = "unlock", ![c].ret = ErrNil, ![c].res = r.res]
             /\ heap' = r.heap
    /\ UNCHANGED <<files, mu, clock>>
    /\ UNCHANGED serverVars

\* Exists: the lookup
ExistsRead(c) ==
    /\ cl[c].pc = "read"
    /\ cl[c].op = "Exists"
    /\ cl' = [cl EXCEPT ![c].pc = "unlock",
                        ![c].ret = IF StoreExists(files, cl[c].name) THEN "true" ELSE "false"]
    /\ UNCHANGED <<files, heap, mu, clock>>
    /\ UNCHANGED serverVars

\* defer s.mu.Unlock(), and the return
Unlock(c) ==
    /\ cl[c].pc = "unlock"
    /\ cl[c].op \in WriteOps
    /\ mu' = [mu EXCEPT !.writer = IF @ = c THEN NoCaller ELSE @]
    /\ cl' = [cl EXCEPT ![c].pc = "ret"]
    /\ UNCHANGED <<files, heap, clock>>
    /\ UNCHANGED serverVars

\* defer s.mu.RUnlock(), and the return
RUnlock(c) ==
    /\ cl[c].pc = "unlock"
    /\ cl[c].op \in ReadOps
    /\ mu' = [mu EXCEPT !.readers = @ \ {c}]
    /\ cl' = [cl EXCEPT ![c].pc = "ret"]
    /\ UNCHANGED <<files, heap, clock>>
    /\ UNCHANGED serverVars

\* after a call returned, the caller writes through a pointer it holds
Mutate(c, p) ==
    /\ cl[c].pc = "ret"
    /\ p \in Held(cl[c])
    /\ heap' = [heap EXCEPT ![p] = Scribble(@)]
    /\ UNCHANGED <<files, mu, clock, cl>>
    /\ UNCHANGED serverVars

\* time passes
Tick ==
    /\ resp = NoResp
    /\ clock < MaxTime
    /\ clock' = clock + 1
    /\ resp' = NoResp
    /\ UNCHANGED <<files, heap, mu, cl, dataDir, dir, data, up, dl, del, expect>>

---------------------------------------------------------------------------
(* The data directory: os.Create, File.Write, File.Read, os.Remove, os.Open *)

NoInode == 0
Inode == 1 .. MaxInode
Byte == 1 .. MaxByte

\* filepath.Base on a Unix path
RECURSIVE StripSlashes(_)
StripSlashes(s) ==
    IF s # << >> /\ s[Len(s)] = "/" THEN StripSlashes(SubSeq(s, 1, Len(s) - 1)) ELSE s

RECURSIVE LastElement(_)
LastElement(s) ==
    IF s = << >> \/ s[Len(s)] = "/" THEN << >>
    ELSE Append(LastElement(SubSeq(s, 1, Len(s) - 1)), s[Len(s)])

Base(path) ==
    IF path = << >> THEN <<".">>
    ELSE LET e == LastElement(StripSlashes(path))
         IN IF e = << >> THEN <<"/">> ELSE e

\* filepath.Join(s.dataDir, filename) is the data directory itself
IsDataDir(name) == name = NameEmpty

\* the inodes in use: those of the directory and of the open handles
OpenInodes(ups, dls) ==
    ({ups[u].file : u \in DOMAIN ups} \cup {dls[d].file : d \in DOMAIN dls}) \ {NoInode}

LinkedInodes(d) == {d[n] : n \in DOMAIN d} \ {NoInode}

\* an inode that nothing uses is freed
CollectInodes(dt, used) == [i \in Inode |-> IF i \in used THEN dt[i] ELSE << >>]

\* a new inode for `name`: which one is not observable
NewInode(name, used) ==
    IF Slot(name) \notin used THEN Slot(name) ELSE LowestIn(Inode \ used)

\* os.Create(path): O_RDWR|O_CREATE|O_TRUNC.  An existing file is truncated
\* in place (every handle on it sees the truncation); else a new one is made
OsCreate(d, dt, name, used) ==
    IF d[name] # NoInode
    THEN [dir |-> d, data |-> [dt EXCEPT ![d[name]] = << >>], ino |-> d[name]]
    ELSE LET i == NewInode(name, used)
         IN [dir |-> [d EXCEPT ![name] = i], data |-> [dt EXCEPT ![i] = << >>], ino |-> i]

\* a faulty write: every chunk is written at the start of the file
WriteAtStart(old, off, chunk) ==
    [i \in 1 .. Max(Len(old), Len(chunk)) |-> IF i <= Len(chunk) THEN chunk[i] ELSE old[i]]

\* file.Write(chunk) at the handle's offset: bytes between the end of the
\* file and the offset are a hole (zeros); bytes beyond the chunk are kept
WriteAt(old, off, chunk) ==
    LET n == Max(Len(old), off + Len(chunk))
    IN [i \in 1 .. n |->
          IF i > off /\ i <= off + Len(chunk) THEN chunk[i - off]
          ELSE IF i <= Len(old) THEN old[i]
          ELSE 0]

\* a Write on a nil file writes nothing (and returns an error)
FileWrite(dt, ino, off, chunk) ==
    IF ino = NoInode THEN dt ELSE [dt EXCEPT ![ino] = WriteAt(@, off, chunk)]

\* file.Read(buf) of n bytes at the handle's offset
FileRead(dt, ino, off, n) == SubSeq(dt[ino], off + 1, off + n)

\* os.Remove(path) of a file's entry
OsRemove(d, name) == [d EXCEPT ![name] = NoInode]

---------------------------------------------------------------------------
(* The store's methods as the server calls them: each runs under the store's
   lock, from Lock to the deferred Unlock *)

\* s.metadata.Create(&FileMeta{...})
MetaCreate(fs, h, rec, now) ==
    LET used == StorePtrs(fs)
        p  == NewCallerAddr(1, used)
        h0 == [h EXCEPT ![p] = rec]
    IN IF StoreExists(fs, rec.Filename)
       THEN [err |-> ErrFileAlreadyExists, files |-> fs, heap |-> h]
       ELSE LET h1 == CreateStamp(h0, p, now)
                q  == NewStoreAddr(rec.Filename, used \cup {p})
                r  == CreateInsert(fs, h1, p, q)
            IN [err |-> ErrNil, files |-> r.files,
                heap |-> Collect(r.heap, StorePtrs(r.files))]

\* s.metadata.Get(filename): the error and the value of the copy
MetaGet(fs, h, name) ==
    IF ~StoreExists(fs, name) THEN [err |-> ErrFileNotFound, meta |-> ZeroRec]
    ELSE LET r == GetCopy(fs, h, name, NewCallerAddr(1, StorePtrs(fs)))
         IN [err |-> ErrNil, meta |-> r.heap[r.ptr]]

\* s.metadata.Delete(filename)
MetaDelete(fs, h, name) ==
    IF ~StoreExists(fs, name) THEN [err |-> ErrFileNotFound, files |-> fs, heap |-> h]
    ELSE LET f1 == DeleteKey(fs, name)
         IN [err |-> ErrNil, files |-> f1, heap |-> Collect(h, StorePtrs(f1))]

\* s.metadata.List(prefix): the values of the copies, in the order of the loop
MetaList(fs, h, prefix, order) ==
    LET r == ListLoop(fs, h, prefix, order, 1, StorePtrs(fs), << >>)
    IN [i \in 1 .. Len(r.res) |-> r.heap[r.res[i]]]

\* a faulty conversion: the time in ticks, not in seconds
UnixTicks(t) == t

\* time.Time.Unix(): seconds, of a time in ticks
Unix(t) == t \div TicksPerSec

\* &api.FileInfo{...} of List and Stat
FileInfo(m) ==
    [Filename |-> m.Filename, Size |-> m.Size,
     CreatedAt |-> Unix(m.CreatedAt), ModifiedAt |-> Unix(m.ModifiedAt)]

---------------------------------------------------------------------------
(* Server.Upload: one handler per stream.  Its steps are the calls that
   read or change what other handlers see. *)

Uploads == {1, 2}
UploadNames == {NameEmpty, NameA, NameSlash}
Chunks == UNION {[1 .. n -> Byte] : n \in 0 .. MaxChunk}
NoBytes == <<-1>>

IdleUpload ==
    [pc |-> "idle",
     filename |-> NameEmpty, fileSize |-> 0,       \* var filename, fileSize
     file |-> NoInode, off |-> 0,                  \* var file: its inode and offset
     err |-> "none",                               \* the error being returned
     sent |-> << >>,    \* ghost: the bytes of the chunk messages received on
                        \*        the stream, in their order
     nmeta |-> 0,       \* ghost: metadata messages received (2: two or more)
     fresh |-> FALSE,   \* ghost: the first filename had no record and no blob
     made |-> FALSE]    \* ghost: os.Create succeeded on this stream

UploadDone(u) == up[u].pc = "idle"

\* what the client of an Upload gets: the response (Success: true, FileId:
\* filename) or the error
UploadResp(u, r, err) ==
    [op |-> "Upload", id |-> u, arg |-> r.filename, err |-> err,
     success |-> (err = ErrNil), fileId |-> IF err = ErrNil THEN r.filename ELSE NameEmpty]

InodesUsed(d, ups, dls) == LinkedInodes(d) \cup OpenInodes(ups, dls)

\* a client opens an Upload stream
UploadStart(u) ==
    /\ resp = NoResp
    /\ UploadDone(u)
    /\ up' = [up EXCEPT ![u] = [IdleUpload EXCEPT !.pc = "recv"]]
    /\ resp' = NoResp
    /\ UNCHANGED <<files, heap, mu, clock, cl, dataDir, dir, data, dl, del, expect>>

\* stream.Recv() returns a metadata message: the filename is validated and
\* the file is created
RecvMetadata(u, name, size, fail) ==
    /\ resp = NoResp
    /\ up[u].pc = "recv"
    /\ LET r0 == [up[u] EXCEPT !.filename = name, !.fileSize = size,
                               !.nmeta = Min(@ + 1, 2),
                               !.fresh = IF up[u].nmeta = 0
                                         THEN ~StoreExists(files, name) /\ dir[name] = NoInode
                                         ELSE @]
       IN IF Base(name) # name
          THEN /\ up' = [up EXCEPT ![u] = IdleUpload]
               /\ resp' = UploadResp(u, r0, "invalid filename")
               /\ data' = CollectInodes(data, InodesUsed(dir, up', dl))
               /\ UNCHANGED <<dir, expect>>
          ELSE IF fail \/ ~dataDir \/ IsDataDir(name)
          THEN /\ up' = [up EXCEPT ![u] = IdleUpload]
               /\ resp' = UploadResp(u, r0, "create file")
               /\ data' = CollectInodes(data, InodesUsed(dir, up', dl))
               /\ UNCHANGED <<dir, expect>>
          ELSE LET c == OsCreate(dir, data, name, InodesUsed(dir, up, dl))
               IN /\ up' = [up EXCEPT ![u] = [r0 EXCEPT !.file = c.ino, !.off = 0,
                                                        !.made = TRUE]]
                  /\ resp' = NoResp
                  /\ dir' = c.dir
                  /\ data' = CollectInodes(c.data, InodesUsed(c.dir, up', dl))
                  /\ expect' = [expect EXCEPT ![name] = NoBytes]
    /\ UNCHANGED <<files, heap, mu, clock, cl, dataDir, dl, del>>

\* a faulty Upload: the test of file against nil is missing
NilFileIgnored(r) == FALSE

\* if file == nil, of the chunk case
NilFile(r) == r.file = NoInode

\* stream.Recv() returns a chunk message: it is written to the file; a
\* failed write may have written the first k bytes (none on a nil file)
RecvChunk(u, chunk, fail, k) ==
    /\ resp = NoResp
    /\ up[u].pc = "recv"
    /\ Len(up[u].sent) + Len(chunk) <= MaxBlob
    /\ IF NilFile(up[u])
       THEN /\ ~fail /\ k = 0
            /\ up' = [up EXCEPT ![u] = IdleUpload]
            /\ resp' = UploadResp(u, up[u], "chunk before metadata")
            /\ UNCHANGED <<data, expect>>
       ELSE IF fail \/ up[u].file = NoInode
       THEN /\ k < Max(Len(chunk), 1)
            /\ up[u].file = NoInode => k = 0
            \* file.Close(); then os.Remove and the return
            /\ up' = [up EXCEPT ![u] = [@ EXCEPT !.pc = "cleanup", !.err = "write chunk",
                                                !.file = NoInode]]
            /\ resp' = NoResp
            /\ data' = CollectInodes(FileWrite(data, up[u].file, up[u].off, SubSeq(chunk, 1, k)),
                                     InodesUsed(dir, up', dl))
            /\ expect' = [expect EXCEPT ![up[u].filename] = NoBytes]
       ELSE /\ k = 0
            /\ up' = [up EXCEPT ![u] = [@ EXCEPT !.off = @ + Len(chunk),
                                                !.sent = @ \o chunk]]
            /\ resp' = NoResp
            /\ data' = FileWrite(data, up[u].file, up[u].off, chunk)
            /\ expect' = [expect EXCEPT ![up[u].filename] = NoBytes]
    /\ UNCHANGED <<files, heap, mu, clock, cl, dataDir, dir, dl, del>>

\* stream.Recv() returns io.EOF: the loop ends and the file is closed
RecvEOF(u, fail) ==
    /\ resp = NoResp
    /\ up[u].pc = "recv"
    /\ IF up[u].file = NoInode
       THEN /\ ~fail
            /\ up' = [up EXCEPT ![u] = [@ EXCEPT !.pc = "create"]]
            /\ resp' = NoResp
       ELSE IF fail
       THEN /\ up' = [up EXCEPT ![u] = IdleUpload]
            /\ resp' = UploadResp(u, up[u], "close file")
       ELSE /\ up' = [up EXCEPT ![u] = [@ EXCEPT !.pc = "create", !.file = NoInode]]
            /\ resp' = NoResp
    /\ data' = CollectInodes(data, InodesUsed(dir, up', dl))
    /\ UNCHANGED <<files, heap, mu, clock, cl, dataDir, dir, dl, del, expect>>

\* stream.Recv() returns an error (the transport broke, the deadline passed)
RecvError(u) ==
    /\ resp = NoResp
    /\ up[u].pc = "recv"
    /\ IF up[u].file = NoInode
       THEN /\ up' = [up EXCEPT ![u] = IdleUpload]
            /\ resp' = UploadResp(u, up[u], "receive chunk")
       ELSE /\ up' = [up EXCEPT ![u] = [@ EXCEPT !.pc = "cleanup", !.err = "receive chunk",
                                                !.file = NoInode]]
            /\ resp' = NoResp
    /\ data' = CollectInodes(data, InodesUsed(dir, up', dl))
    /\ UNCHANGED <<files, heap, mu, clock, cl, dataDir, dir, dl, del, expect>>

\* s.metadata.Create(&FileMeta{Filename: filename, Size: fileSize})
UploadCreate(u) ==
    /\ resp = NoResp
    /\ up[u].pc = "create"
    /\ LET r == MetaCreate(files, heap, FileMeta(up[u].filename, up[u].fileSize, 0, 0), clock)
       IN /\ files' = r.files
          /\ heap' = r.heap
          /\ IF r.err # ErrNil
             THEN /\ up' = [up EXCEPT ![u] = [@ EXCEPT !.pc = "cleanup",
                                                      !.err = "store metadata"]]
                  /\ UNCHANGED expect
             ELSE /\ up' = [up EXCEPT ![u] = [@ EXCEPT !.pc = "send"]]
                  /\ expect' = [expect EXCEPT ![up[u].filename] =
                                   IF up[u].nmeta = 1 THEN up[u].sent ELSE NoBytes]
    /\ resp' = NoResp
    /\ UNCHANGED <<mu, clock, cl, dataDir, dir, data, dl, del>>

\* os.Remove(filepath.Join(s.dataDir, filename)), its error ignored, and the
\* return of the error.  The path of the empty filename is the directory,
\* which os.Remove removes when it is empty.
UploadCleanup(u, fail) ==
    /\ resp = NoResp
    /\ up[u].pc = "cleanup"
    /\ LET name == up[u].filename
       IN IF fail \/ ~dataDir
          THEN UNCHANGED <<dataDir, dir>>
          ELSE IF IsDataDir(name)
          THEN /\ dataDir' = (LinkedInodes(dir) # {})
               /\ UNCHANGED dir
          ELSE /\ dir' = OsRemove(dir, name)
               /\ UNCHANGED dataDir
    /\ up' = [up EXCEPT ![u] = IdleUpload]
    /\ resp' = UploadResp(u, up[u], up[u].err)
    /\ data' = CollectInodes(data, InodesUsed(dir', up', dl))
    /\ expect' = [expect EXCEPT ![up[u].filename] = NoBytes]
    /\ UNCHANGED <<files, heap, mu, clock, cl, dl, del>>

\* stream.SendAndClose(&api.UploadResponse{Success: true, ...})
UploadSend(u, fail) ==
    /\ resp = NoResp
    /\ up[u].pc = "send"
    /\ up' = [up EXCEPT ![u] = IdleUpload]
    /\ resp' = UploadResp(u, up[u], IF fail THEN "send response" ELSE ErrNil)
    /\ UNCHANGED <<files, heap, mu, clock, cl, dataDir, dir, data, dl, del, expect>>

---------------------------------------------------------------------------
(* Server.Download *)

Downloads == {1}
RequestNames == {NameEmpty, NameA, NameB}

IdleDownload ==
    [pc |-> "idle",
     filename |-> NameEmpty,      \* req.Filename
     meta |-> ZeroRec,            \* the record Get returned
     file |-> NoInode, off |-> 0, \* file: its inode and offset
     msgs |-> << >>]              \* the messages sent on the stream

DownloadDone(d) == dl[d].pc = "idle"

\* what the client of a Download gets: the messages of the stream, then its
\* clean end or the error
DownloadResp(d, r, err) ==
    [op |-> "Download", id |-> d, arg |-> r.filename, err |-> err, msgs |-> r.msgs]

\* a faulty metadata message: the size is left at zero
MetadataMsgNoSize(m) == [type |-> "metadata", filename |-> m.Filename, size |-> 0]

MetadataMsg(m) == [type |-> "metadata", filename |-> m.Filename, size |-> m.Size]
ChunkMsg(b) == [type |-> "chunk", chunk |-> b]

\* a faulty Download: the error of Get is ignored
DownloadLookupBlind(d, name) ==
    /\ resp = NoResp
    /\ DownloadDone(d)
    /\ dl' = [dl EXCEPT ![d] = [IdleDownload EXCEPT !.pc = "open", !.filename = name,
                                !.meta = MetaGet(files, heap, name).meta]]
    /\ resp' = NoResp
    /\ UNCHANGED <<files, heap, mu, clock, cl, dataDir, dir, data, up, del, expect>>

\* the call arrives: meta, err := s.metadata.Get(filename)
DownloadLookup(d, name) ==
    /\ resp = NoResp
    /\ DownloadDone(d)
    /\ LET g  == MetaGet(files, heap, name)
           r0 == [IdleDownload EXCEPT !.filename = name, !.meta = g.meta]
       IN IF g.err # ErrNil
          THEN /\ dl' = [dl EXCEPT ![d] = IdleDownload]
               /\ resp' = DownloadResp(d, r0, "file not found")
          ELSE /\ dl' = [dl EXCEPT ![d] = [r0 EXCEPT !.pc = "open"]]
               /\ resp' = NoResp
    /\ UNCHANGED <<files, heap, mu, clock, cl, dataDir, dir, data, up, del, expect>>

\* a faulty Download: the file is opened as os.Create opens it, truncated
DownloadOpenTrunc(d, openFail, sendFail) ==
    /\ resp = NoResp
    /\ dl[d].pc = "open"
    /\ LET name == dl[d].filename
       IN IF openFail \/ ~dataDir \/ IsDataDir(name) \/ dir[name] = NoInode
          THEN /\ ~sendFail
               /\ dl' = [dl EXCEPT ![d] = IdleDownload]
               /\ resp' = DownloadResp(d, dl[d], "open file")
               /\ data' = data
          ELSE /\ data' = [data EXCEPT ![dir[name]] = << >>]
               /\ IF sendFail
                  THEN /\ dl' = [dl EXCEPT ![d] = IdleDownload]
                       /\ resp' = DownloadResp(d, dl[d], "send metadata")
                  ELSE /\ dl' = [dl EXCEPT ![d] = [@ EXCEPT !.pc = "read", !.file = dir[name],
                                                           !.off = 0,
                                                           !.msgs = <<MetadataMsg(dl[d].meta)>>]]
                       /\ resp' = NoResp
    /\ UNCHANGED <<files, heap, mu, clock, cl, dataDir, dir, up, del, expect>>

\* os.Open(filePath), then stream.Send of the metadata message.  The path
\* of the empty filename is the data directory: os.Open opens it, and the
\* first file.Read fails.
DownloadOpen(d, openFail, sendFail) ==
    /\ resp = NoResp
    /\ dl[d].pc = "open"
    /\ LET name == dl[d].filename
       IN IF openFail \/ ~dataDir \/ (~IsDataDir(name) /\ dir[name] = NoInode)
          THEN /\ ~sendFail
               /\ dl' = [dl EXCEPT ![d] = IdleDownload]
               /\ resp' = DownloadResp(d, dl[d], "open file")
          ELSE IF sendFail
          THEN /\ dl' = [dl EXCEPT ![d] = IdleDownload]
               /\ resp' = DownloadResp(d, dl[d], "send metadata")
          ELSE IF IsDataDir(name)
          THEN /\ dl' = [dl EXCEPT ![d] = IdleDownload]
               /\ resp' = DownloadResp(d, [dl[d] EXCEPT !.msgs = <<MetadataMsg(dl[d].meta)>>],
                                       "read file")
          ELSE /\ dl' = [dl EXCEPT ![d] = [@ EXCEPT !.pc = "read", !.file = dir[name],
                                                   !.off = 0,
                                                   !.msgs = <<MetadataMsg(dl[d].meta)>>]]
               /\ resp' = NoResp
    /\ UNCHANGED <<files, heap, mu, clock, cl, dataDir, dir, data, up, del, expect>>

\* one turn of the loop: file.Read(buf) of up to defaultChunkSize bytes, then
\* stream.Send of the bytes read; io.EOF ends the loop and the call
DownloadRead(d, n, readFail, sendFail) ==
    /\ resp = NoResp
    /\ dl[d].pc = "read"
    /\ LET left == Len(data[dl[d].file]) - dl[d].off
       IN IF readFail
          THEN /\ ~sendFail /\ n = 1
               /\ dl' = [dl EXCEPT ![d] = IdleDownload]
               /\ resp' = DownloadResp(d, dl[d], "read file")
          ELSE IF left <= 0
          THEN /\ ~sendFail /\ n = 1
               /\ dl' = [dl EXCEPT ![d] = IdleDownload]
               /\ resp' = DownloadResp(d, dl[d], ErrNil)
          ELSE /\ n <= Min(left, defaultChunkSize)
               /\ IF sendFail
                  THEN /\ dl' = [dl EXCEPT ![d] = IdleDownload]
                       /\ resp' = DownloadResp(d, dl[d], "send chunk")
                  ELSE /\ dl' = [dl EXCEPT ![d] =
                                  [@ EXCEPT !.off = @ + n,
                                            !.msgs = Append(@, ChunkMsg(
                                                FileRead(data, dl[d].file, dl[d].off, n)))]]
                       /\ resp' = NoResp
    /\ data' = CollectInodes(data, InodesUsed(dir, up, dl'))
    /\ UNCHANGED <<files, heap, mu, clock, cl, dataDir, dir, up, del, expect>>

---------------------------------------------------------------------------
(* Server.Delete *)

Deletes == {1, 2}

IdleDelete == [pc |-> "idle", filename |-> NameEmpty]

DeleteDone(k) == del[k].pc = "idle"

\* what the client of a Delete gets: the response (Success, Message) or the error
DeleteResp(k, name, success, message, err) ==
    [op |-> "Delete", id |-> k, arg |-> name, err |-> err,
     success |-> success, message |-> message]

\* a faulty Delete: the existence check is missing
DeleteUnchecked(k, name) ==
    /\ resp = NoResp
    /\ DeleteDone(k)
    /\ del' = [del EXCEPT ![k] = [pc |-> "remove", filename |-> name]]
    /\ resp' = NoResp
    /\ UNCHANGED <<files, heap, mu, clock, cl, dataDir, dir, data, up, dl, expect>>

\* the call arrives: if !s.metadata.Exists(filename), the not-found response
\* (Success: false, no error)
DeleteLookup(k, name) ==
    /\ resp = NoResp
    /\ DeleteDone(k)
    /\ IF ~StoreExists(files, name)
       THEN /\ del' = [del EXCEPT ![k] = IdleDelete]
            /\ resp' = DeleteResp(k, name, FALSE, "file not found", ErrNil)
       ELSE /\ del' = [del EXCEPT ![k] = [pc |-> "remove", filename |-> name]]
            /\ resp' = NoResp
    /\ UNCHANGED <<files, heap, mu, clock, cl, dataDir, dir, data, up, dl, expect>>

\* a faulty Delete: os.Remove is not called before the record is deleted
DeleteDataSkipped(k, fail) ==
    /\ resp = NoResp
    /\ del[k].pc = "remove"
    /\ ~fail
    /\ del' = [del EXCEPT ![k] = [@ EXCEPT !.pc = "meta"]]
    /\ resp' = NoResp
    /\ UNCHANGED <<files, heap, mu, clock, cl, dataDir, dir, data, up, dl, expect>>

\* os.Remove(filePath): an error other than "does not exist" is returned.
\* The path of the empty filename is the data directory: os.Remove removes
\* it when it is empty and fails when it is not.
DeleteData(k, fail) ==
    /\ resp = NoResp
    /\ del[k].pc = "remove"
    /\ LET name == del[k].filename
           gone == ~dataDir \/ (~IsDataDir(name) /\ dir[name] = NoInode)
           bad  == ~gone /\ (fail \/ (IsDataDir(name) /\ LinkedInodes(dir) # {}))
       IN /\ gone => ~fail
          /\ IF bad
             THEN /\ del' = [del EXCEPT ![k] = IdleDelete]
                  /\ resp' = DeleteResp(k, name, FALSE, "none", "delete file data")
                  /\ UNCHANGED <<dataDir, dir, expect>>
             ELSE /\ del' = [del EXCEPT ![k] = [@ EXCEPT !.pc = "meta"]]
                  /\ resp' = NoResp
                  /\ dataDir' = (dataDir /\ ~IsDataDir(name))
                  /\ dir' = IF gone \/ IsDataDir(name) THEN dir ELSE OsRemove(dir, name)
                  /\ expect' = [expect EXCEPT ![name] = NoBytes]
    /\ data' = CollectInodes(data, InodesUsed(dir', up, dl))
    /\ UNCHANGED <<files, heap, mu, clock, cl, up, dl>>

\* s.metadata.Delete(filename), and the response (Success: true) or the error
DeleteMeta(k) ==
    /\ resp = NoResp
    /\ del[k].pc = "meta"
    /\ LET r == MetaDelete(files, heap, del[k].filename)
       IN /\ files' = r.files
          /\ heap' = r.heap
          /\ del' = [del EXCEPT ![k] = IdleDelete]
          /\ resp' = IF r.err = ErrNil
                     THEN DeleteResp(k, del[k].filename, TRUE, "deleted successfully", ErrNil)
                     ELSE DeleteResp(k, del[k].filename, FALSE, "none", "delete metadata")
    /\ expect' = [expect EXCEPT ![del[k].filename] = NoBytes]
    /\ UNCHANGED <<mu, clock, cl, dataDir, dir, data, up, dl>>

---------------------------------------------------------------------------
(* Server.List and Server.Stat: one call of the store each *)

List(prefix) ==
    /\ resp = NoResp
    /\ \E order \in KeyOrders(files) :
          LET fs == MetaList(files, heap, prefix, order)
          IN resp' = [op |-> "List", arg |-> prefix, err |-> ErrNil,
                      files |-> [i \in 1 .. Len(fs) |-> FileInfo(fs[i])]]
    /\ UNCHANGED <<files, heap, mu, clock, cl, dataDir, dir, data, up, dl, del, expect>>

Stat(name) ==
    /\ resp = NoResp
    /\ LET g == MetaGet(files, heap, name)
       IN resp' = IF g.err # ErrNil
                  THEN [op |-> "Stat", arg |-> name, err |-> ErrNil, exists |-> FALSE,
                        files |-> << >>]
                  ELSE [op |-> "Stat", arg |-> name, err |-> ErrNil, exists |-> TRUE,
                        files |-> <<FileInfo(g.meta)>>]
    /\ UNCHANGED <<files, heap, mu, clock, cl, dataDir, dir, data, up, dl, del, expect>>

---------------------------------------------------------------------------
(* Specifications *)

InitStore ==
    /\ files = [n \in Names |-> NoAddr]
    /\ heap = [a \in Addr |-> ZeroRec]
    /\ mu = [writer |-> NoCaller, readers |-> {}]
    /\ clock = 1
    /\ cl = [c \in Callers |-> IdleCaller]

InitServer ==
    /\ dataDir = TRUE
    /\ dir = [n \in Names |-> NoInode]
    /\ data = [i \in Inode |-> << >>]
    /\ up = [u \in Uploads |-> IdleUpload]
    /\ dl = [d \in Downloads |-> IdleDownload]
    /\ del = [k \in Deletes |-> IdleDelete]
    /\ resp = NoResp
    /\ expect = [n \in Names |-> NoBytes]

Init == InitStore /\ InitServer

\* no handler is running
Quiet ==
    /\ \A u \in Uploads : UploadDone(u)
    /\ \A d \in Downloads : DownloadDone(d)
    /\ \A k \in Deletes : DeleteDone(k)

\* the steps of the running handlers among uploads U, downloads D, deletes K
HandlerStep(U, D, K) ==
    \/ \E u \in U, name \in UploadNames, size \in 0 .. MaxDecl, fail \in BOOLEAN :
          RecvMetadata(u, name, size, fail)
    \/ \E u \in U, chunk \in Chunks, fail \in BOOLEAN, k \in 0 .. MaxChunk :
          RecvChunk(u, chunk, fail, k)
    \/ \E u \in U, fail \in BOOLEAN : RecvEOF(u, fail)
    \/ \E u \in U : RecvError(u)
    \/ \E u \in U : UploadCreate(u)
    \/ \E u \in U, fail \in BOOLEAN : UploadCleanup(u, fail)
    \/ \E u \in U, fail \in BOOLEAN : UploadSend(u, fail)
    \/ \E d \in D, openFail \in BOOLEAN, sendFail \in BOOLEAN :
          DownloadOpen(d, openFail, sendFail)
    \/ \E d \in D, n \in 1 .. defaultChunkSize, readFail \in BOOLEAN,
          sendFail \in BOOLEAN : DownloadRead(d, n, readFail, sendFail)
    \/ \E k \in K, fail \in BOOLEAN : DeleteData(k, fail)
    \/ \E k \in K : DeleteMeta(k)

\* a call arrives
Arrival(U, D, K) ==
    \/ \E u \in U : UploadStart(u)
    \/ \E d \in D, name \in RequestNames : DownloadLookup(d, name)
    \/ \E k \in K, name \in RequestNames : DeleteLookup(k, name)
    \/ \E prefix \in Prefixes : List(prefix)
    \/ \E name \in RequestNames : Stat(name)

\* the client of the call that has just returned takes the response; the
\* server's next step comes after it
Return ==
    /\ resp # NoResp
    /\ resp' = NoResp
    /\ UNCHANGED <<files, heap, mu, clock, cl, dataDir, dir, data, up, dl, del, expect>>

\* the server: handlers run concurrently
Next ==
    \/ Arrival(Uploads, Downloads, Deletes)
    \/ HandlerStep(Uploads, Downloads, Deletes)
    \/ Return

Spec == Init /\ [][Next]_vars

\* the server with one call at a time: a call arrives when no handler runs
\* (which handler serves it makes no difference: it is the first of its kind)
NextSeq ==
    \/ Quiet /\ UploadStart(1)
    \/ \E name \in RequestNames : Quiet /\ DownloadLookup(1, name)
    \/ \E name \in RequestNames : Quiet /\ DeleteLookup(1, name)
    \/ \E prefix \in Prefixes : Quiet /\ List(prefix)
    \/ \E name \in RequestNames : Quiet /\ Stat(name)
    \/ HandlerStep({1}, {1}, {1})
    \/ Tick
    \/ Return

SpecSeq == Init /\ [][NextSeq]_vars

\* one caller at a time
StoreStep(c) ==
    \/ Lock(c)
    \/ RLock(c)
    \/ CreateCheck(c)
    \/ CreateStore(c)
    \/ UpdateCheck(c)
    \/ UpdateStore(c)
    \/ DeleteCheck(c)
    \/ DeleteStore(c)
    \/ GetRead(c)
    \/ ListRead(c)
    \/ ExistsRead(c)
    \/ Unlock(c)
    \/ RUnlock(c)

\* the store under one caller, which passes any record and writes through
\* the pointers it holds
NextSolo ==
    \/ \E op \in {"Create", "Update"}, rec \in ArgRecs : CallWrite(1, op, rec)
    \/ \E op \in {"Get", "Delete", "Exists"}, name \in CallerNames : CallName(1, op, name)
    \/ \E prefix \in Prefixes : CallName(1, "List", prefix)
    \/ StoreStep(1)
    \/ \E p \in Addr : Mutate(1, p)
    \/ Tick

SpecSolo == Init /\ [][NextSolo]_vars

\* the store under concurrent callers; each passes records of its own size
NextStore ==
    \/ \E c \in Callers : \E op \in {"Create", "Update"}, rec \in OwnRecs(c) :
          CallWrite(c, op, rec)
    \/ \E c \in Callers, op \in {"Get", "Delete", "Exists"}, name \in CallerNames :
          CallName(c, op, name)
    \/ \E c \in Callers, prefix \in {NameEmpty, NameAB} : CallName(c, "List", prefix)
    \/ \E c \in Callers : StoreStep(c)

SpecStore == Init /\ [][NextStore]_vars

\* the steps of Upload u whose client sends one metadata message for NameA,
\* then chunks, then the end of the stream, with no failure of the stream or
\* of the file system
UploadRun(u) ==
    \/ \E size \in 0 .. MaxDecl : up[u].nmeta = 0 /\ RecvMetadata(u, NameA, size, FALSE)
    \/ \E chunk \in Chunks : up[u].nmeta = 1 /\ RecvChunk(u, chunk, FALSE, 0)
    \/ up[u].nmeta = 1 /\ RecvEOF(u, FALSE)
    \/ UploadCreate(u)
    \/ UploadCleanup(u, FALSE)
    \/ UploadSend(u, FALSE)

\* two Delete calls of NameA run concurrently, between Uploads of NameA that
\* run alone; nothing fails in the file system
NextDeletes ==
    \/ Quiet /\ UploadStart(1)
    \/ UploadRun(1)
    \/ \E k \in Deletes : UploadDone(1) /\ DeleteLookup(k, NameA)
    \/ \E k \in Deletes : DeleteData(k, FALSE)
    \/ \E k \in Deletes : DeleteMeta(k)
    \/ Return

SpecDeletes == Init /\ [][NextDeletes]_vars

\* Uploads of NameA run concurrently: each begins while NameA has no record
\* and no blob left by an Upload that has returned
NextUploads ==
    \/ \E u \in Uploads :
          /\ ~StoreExists(files, NameA)
          /\ dir[NameA] = NoInode \/ \E o \in Uploads : ~UploadDone(o)
          /\ UploadStart(u)
    \/ \E u \in Uploads : UploadRun(u)
    \/ Return

SpecUploads == Init /\ [][NextUploads]_vars

\* the steps of Upload u whose client sends one metadata message for NameA
\* and then as many bytes as it declared, in chunks that are not empty,
\* before the end of the stream; nothing fails
UploadExact(u) ==
    \/ \E size \in 0 .. MaxDecl : up[u].nmeta = 0 /\ RecvMetadata(u, NameA, size, FALSE)
    \/ \E chunk \in Chunks :
          /\ up[u].nmeta = 1
          /\ chunk # << >>
          /\ Len(up[u].sent) + Len(chunk) <= up[u].fileSize
          /\ RecvChunk(u, chunk, FALSE, 0)
    \/ up[u].nmeta = 1 /\ Len(up[u].sent) = up[u].fileSize /\ RecvEOF(u, FALSE)
    \/ UploadCreate(u)
    \/ UploadCleanup(u, FALSE)
    \/ UploadSend(u, FALSE)

\* an Upload, a Download and a Delete of NameA run concurrently; nothing
\* fails in the file system or on a stream
NextMixed ==
    \/ UploadStart(1)
    \/ UploadExact(1)
    \/ DownloadLookup(1, NameA)
    \/ DownloadOpen(1, FALSE, FALSE)
    \/ \E n \in 1 .. defaultChunkSize : DownloadRead(1, n, FALSE, FALSE)
    \/ DeleteLookup(1, NameA)
    \/ DeleteData(1, FALSE)
    \/ DeleteMeta(1)
    \/ Return

SpecMixed == Init /\ [][NextMixed]_vars

---------------------------------------------------------------------------
(* Properties.  They are stated on the variables, not through the operators
   of the model above. *)

HasRecord(f) == files[f] # NoAddr
HasBlob(f) == dataDir /\ dir[f] # NoInode
Record(f) == heap[files[f]]
Blob(f) == data[dir[f]]

StartsWith(s, p) == Len(p) <= Len(s) /\ \A i \in 1 .. Len(p) : s[i] = p[i]

Seconds(t) == t \div TicksPerSec

\* the records of the names in S are the same before and after a step
SameRecords(S) ==
    \A g \in S : /\ (files'[g] = NoAddr) <=> (files[g] = NoAddr)
                 /\ files[g] # NoAddr => heap'[files'[g]] = heap[files[g]]

\* the blobs are the same before and after a step
SameBlobs ==
    /\ dataDir' = dataDir
    /\ \A g \in Names : /\ (dir'[g] = NoInode) <=> (dir[g] = NoInode)
                        /\ dir[g] # NoInode => data'[dir'[g]] = data[dir[g]]

\* the bytes of the chunk messages of a stream, in the order of the stream
RECURSIVE ChunkBytes(_)
ChunkBytes(msgs) ==
    IF msgs = << >> THEN << >>
    ELSE (IF Head(msgs).type = "chunk" THEN Head(msgs).chunk ELSE << >>)
         \o ChunkBytes(Tail(msgs))

\* C1: whenever no Upload and no Delete is in progress, a filename has a
\* record in the store if and only if it has a blob in the data directory.
C1_RecordIffBlob ==
    ((\A u \in Uploads : up[u].pc = "idle") /\ (\A k \in Deletes : del[k].pc = "idle"))
        => \A f \in Names : HasRecord(f) <=> HasBlob(f)

\* the errors of an Upload after os.Create: of stream.Recv, file.Write,
\* file.Close and s.metadata.Create
ErrorsAfterCreate == {"receive chunk", "write chunk", "close file", "store metadata"}

\* C2: an Upload of one metadata message whose filename had no record and
\* no blob, and which returns one of the errors that follow os.Create,
\* leaves no record and no blob of that filename.
C2_FailedUploadLeavesNothing ==
    [][\A u \in Uploads :
          (/\ up[u].made /\ up[u].fresh /\ up[u].nmeta = 1
           /\ up'[u].pc = "idle"
           /\ resp'.op = "Upload" /\ resp'.id = u /\ resp'.err \in ErrorsAfterCreate)
          => /\ files'[up[u].filename] = NoAddr
             /\ dir'[up[u].filename] = NoInode]_vars

\* C3: a Download of a filename whose committed upload sent the bytes B, in
\* any split into chunk messages, and whose blob and record were not touched
\* since, finds the file; the concatenation of the chunk messages it
\* delivers is a prefix of B, and it is B when the Download ends without
\* error.
C3_RoundTrip ==
    (resp.op = "Download" /\ expect[resp.arg] # NoBytes)
        => LET B   == expect[resp.arg]
               got == ChunkBytes(resp.msgs)
           IN /\ resp.err # "file not found"
              /\ Len(got) <= Len(B)
              /\ got = SubSeq(B, 1, Len(got))
              /\ resp.err = ErrNil => got = B

\* a Download returned every byte of a committed upload of MaxBlob bytes, in
\* more than one chunk message
C3_Witness ==
    /\ resp.op = "Download" /\ resp.err = ErrNil
    /\ expect[resp.arg] # NoBytes
    /\ Len(expect[resp.arg]) = MaxBlob
    /\ Len(resp.msgs) > 2
    /\ ChunkBytes(resp.msgs) = expect[resp.arg]

\* C4: once an Upload has committed its record, the Size of the record is
\* the number of chunk bytes the Upload wrote to the blob.
C4_SizeIsBytesWritten ==
    \A u \in Uploads :
        (up[u].pc = "send" /\ HasRecord(up[u].filename))
            => Record(up[u].filename).Size = up[u].off

\* the record a successful Create leaves, for the record `a` as it was passed
AsPassed(r, a, now) ==
    /\ r.Filename = a.Filename
    /\ r.Size = a.Size
    /\ r.CreatedAt = (IF a.CreatedAt = 0 THEN now ELSE a.CreatedAt)
    /\ r.ModifiedAt = (IF a.ModifiedAt = 0 THEN now ELSE a.ModifiedAt)

\* C5: Create of a filename without record succeeds and stores a record
\* equal to the one passed (with the timestamps Create set), leaving the
\* other records alone; Create of a filename with a record returns
\* ErrFileAlreadyExists and changes no record; Get of a filename with a
\* record returns a copy equal to the stored record.
C5_CreateContract ==
    [][\A c \in Callers :
          LET f == cl[c].name
          IN /\ (cl[c].op = "Create" /\ cl[c].pc = "check" /\ cl'[c].pc # "check")
                => /\ View' = View
                   /\ IF HasRecord(f)
                      THEN cl'[c].pc = "unlock" /\ cl'[c].ret = ErrFileAlreadyExists
                      ELSE cl'[c].pc = "store"
             /\ (cl[c].op = "Create" /\ cl[c].pc = "store" /\ cl'[c].pc # "store")
                => /\ cl'[c].pc = "unlock" /\ cl'[c].ret = ErrNil
                   /\ ~HasRecord(f)
                   /\ files'[f] # NoAddr
                   /\ heap'[files'[f]] = heap'[cl[c].arg]
                   /\ AsPassed(heap'[files'[f]], cl[c].argv, clock)
                   /\ SameRecords(Names \ {f})
             /\ (cl[c].op = "Get" /\ cl[c].pc = "read" /\ cl'[c].pc # "read")
                => /\ View' = View
                   /\ IF HasRecord(f)
                      THEN /\ cl'[c].ret = ErrNil
                           /\ Len(cl'[c].res) = 1
                           /\ heap'[cl'[c].res[1]] = Record(f)
                      ELSE cl'[c].ret = ErrFileNotFound /\ cl'[c].res = << >>]_vars

\* a Get has returned the record that a Create stamped with its creation
\* time, at the last tick of the clock, and whose modification time the
\* caller had set
C5_Witness ==
    /\ cl[1].op = "Get" /\ cl[1].pc = "unlock" /\ cl[1].ret = ErrNil
    /\ HasRecord(cl[1].name)
    /\ heap[cl[1].res[1]] = Record(cl[1].name)
    /\ Record(cl[1].name).CreatedAt = MaxTime
    /\ Record(cl[1].name).ModifiedAt = 1

\* C6: when two Create calls of the same filename, each invoked while the
\* filename had no record, overlap and both have returned, one returned nil
\* and the other ErrFileAlreadyExists, and the store holds the record of
\* the one that returned nil.
C6_OneCreateWins ==
    \A c \in Callers : \A o \in Callers \ {c} :
        (/\ cl[c].op = "Create" /\ cl[o].op = "Create"
         /\ cl[c].name = cl[o].name
         /\ cl[c].pc = "ret" /\ cl[o].pc = "ret"
         /\ cl[c].fresh /\ cl[o].fresh
         /\ cl[o].over)
        => \E w \in {c, o} : \E l \in {c, o} \ {w} :
              /\ cl[w].ret = ErrNil
              /\ cl[l].ret = ErrFileAlreadyExists
              /\ HasRecord(cl[w].name)
              /\ Record(cl[w].name) = heap[cl[w].arg]
              /\ Record(cl[w].name).Size = cl[w].argv.Size

\* two overlapping Create calls of a new filename have returned, and the one
\* invoked second is the one that succeeded
C6_Witness ==
    /\ cl[1].op = "Create" /\ cl[2].op = "Create"
    /\ cl[1].name = cl[2].name
    /\ cl[1].pc = "ret" /\ cl[2].pc = "ret"
    /\ cl[1].fresh /\ cl[2].fresh
    /\ cl[2].over
    /\ cl[2].ret = ErrNil /\ cl[1].ret = ErrFileAlreadyExists

\* C7: no pointer a caller holds is a pointer of the store's map, and a
\* write of a caller through a pointer it holds (the record it passed to
\* Create or Update, a record Get or List returned) changes no record that
\* Get and List return.
C7_CopyIsolation ==
    [][/\ \A c \in Callers : Held(cl'[c]) \cap StorePtrs(files') = {}
       /\ (cl' = cl /\ files' = files /\ heap' # heap) => View' = View]_vars

\* after a Get returned, the caller has changed the copy it was returned,
\* which now differs from the stored record
C7_Witness ==
    /\ cl[1].op = "Get" /\ cl[1].pc = "ret" /\ cl[1].ret = ErrNil
    /\ HasRecord(cl[1].name)
    /\ heap[cl[1].res[1]] # Record(cl[1].name)

\* C8: a Delete call that arrives for a filename without record returns at
\* once the response Success: false with the not-found message and no error,
\* and changes neither the store nor the data directory.
C8_DeleteAbsent ==
    [][\A k \in Deletes : \A f \in Names :
          (/\ del[k].pc = "idle"
           /\ ~HasRecord(f)
           /\ \/ del'[k].pc # "idle" /\ del'[k].filename = f
              \/ resp'.op = "Delete" /\ resp'.id = k /\ resp'.arg = f)
          => /\ del'[k].pc = "idle"
             /\ resp' = [op |-> "Delete", id |-> k, arg |-> f, err |-> ErrNil,
                         success |-> FALSE, message |-> "file not found"]
             /\ SameRecords(Names)
             /\ SameBlobs]_vars

\* a Delete has returned the not-found response while another filename has
\* a record and a blob
C8_Witness ==
    /\ resp.op = "Delete" /\ resp.err = ErrNil /\ ~resp.success
    /\ ~HasRecord(resp.arg)
    /\ \E g \in Names : HasRecord(g) /\ HasBlob(g)

\* C9: List(prefix) returns nil and one new object for each stored record
\* whose filename starts with prefix, equal to that record, and nothing
\* else; it changes no record.
C9_ListExact ==
    [][\A c \in Callers :
          (cl[c].op = "List" /\ cl[c].pc = "read" /\ cl'[c].pc # "read")
          => LET match == {n \in Names : HasRecord(n) /\ StartsWith(n, cl[c].name)}
                 res   == cl'[c].res
             IN /\ cl'[c].ret = ErrNil
                /\ Len(res) = Cardinality(match)
                /\ \A n \in match : \E i \in 1 .. Len(res) : heap'[res[i]] = Record(n)
                /\ \A i, j \in 1 .. Len(res) : i # j => res[i] # res[j]
                /\ \A i \in 1 .. Len(res) : res[i] # NoAddr /\ res[i] \notin StorePtrs(files)
                /\ View' = View]_vars

\* a List has returned one of the two stored records: the prefix excludes
\* the other
C9_Witness ==
    /\ cl[1].op = "List" /\ cl[1].pc = "unlock" /\ cl[1].name = NameAB
    /\ HasRecord(NameA) /\ HasRecord(NameAB)
    /\ Len(cl[1].res) = 1
    /\ heap[cl[1].res[1]] = Record(NameAB)

\* C10: Stat returns no error; for a filename without record, Exists: false
\* and no file info; for a filename with a record, Exists: true and the
\* filename, the size and the creation and modification times (in seconds)
\* of the record; it changes neither the store nor the data directory.
C10_Stat ==
    [][(resp'.op = "Stat")
       => LET f == resp'.arg
          IN /\ resp'.err = ErrNil
             /\ IF HasRecord(f)
                THEN /\ resp'.exists
                     /\ resp'.files = <<[Filename   |-> Record(f).Filename,
                                         Size       |-> Record(f).Size,
                                         CreatedAt  |-> Seconds(Record(f).CreatedAt),
                                         ModifiedAt |-> Seconds(Record(f).ModifiedAt)]>>
                ELSE ~resp'.exists /\ resp'.files = << >>
             /\ SameRecords(Names)
             /\ SameBlobs]_vars

\* Stat has returned the file info of a record of size 1 created in second 1
C10_Witness ==
    /\ resp.op = "Stat" /\ resp.err = ErrNil /\ resp.exists
    /\ resp.files[1].Filename = NameA
    /\ resp.files[1].Size = 1
    /\ resp.files[1].CreatedAt = 1

\* C11: while a filename keeps its record, from one state to the next, the
\* CreatedAt of the record does not change.
C11_CreatedAtFixed ==
    [][\A f \in Names :
          (files[f] # NoAddr /\ files'[f] # NoAddr)
          => heap'[files'[f]].CreatedAt = heap[files[f]].CreatedAt]_vars

\* C12: Update of a filename without record returns ErrFileNotFound and
\* changes no record; Update of a filename with a record returns nil and
\* replaces the record with a new object equal to the record passed, except
\* that ModifiedAt is the current time, leaving the other records alone.
C12_UpdateContract ==
    [][\A c \in Callers :
          LET f == cl[c].name
          IN /\ (cl[c].op = "Update" /\ cl[c].pc = "check" /\ cl'[c].pc # "check")
                => /\ View' = View
                   /\ IF HasRecord(f)
                      THEN cl'[c].pc = "store"
                      ELSE cl'[c].pc = "unlock" /\ cl'[c].ret = ErrFileNotFound
             /\ (cl[c].op = "Update" /\ cl[c].pc = "store" /\ cl'[c].pc # "store")
                => /\ cl'[c].pc = "unlock" /\ cl'[c].ret = ErrNil
                   /\ HasRecord(f)
                   /\ files'[f] # NoAddr
                   /\ files'[f] # cl[c].arg
                   /\ heap'[files'[f]] = [cl[c].argv EXCEPT !.ModifiedAt = clock]
                   /\ SameRecords(Names \ {f})]_vars

\* an Update has replaced a record by one whose size differs and whose
\* ModifiedAt, which the caller had set to 1, is the current time MaxTime
C12_Witness ==
    /\ cl[1].op = "Update" /\ cl[1].pc = "unlock" /\ cl[1].ret = ErrNil
    /\ cl[1].argv.ModifiedAt = 1 /\ cl[1].argv.Size = MaxSize
    /\ clock = MaxTime
    /\ HasRecord(cl[1].name)
    /\ Record(cl[1].name).ModifiedAt = MaxTime
    /\ Record(cl[1].name).Size = MaxSize

\* C13: when the message an Upload receives before any metadata message is
\* a chunk (not a metadata message, not the end of the stream, not an error
\* of the stream), the Upload returns at once an error and no success
\* response, and no record and no blob is added or changed.
C13_ChunkBeforeMetadata ==
    [][\A u \in Uploads :
          (/\ up[u].pc = "recv" /\ up[u].nmeta = 0
           /\ up'[u] # up[u]
           /\ up'[u].nmeta = 0
           /\ up'[u].pc # "create"
           /\ ~(resp'.op = "Upload" /\ resp'.id = u
                /\ resp'.err \in {"invalid filename", "create file", "receive chunk"}))
          => /\ up'[u].pc = "idle"
             /\ resp'.op = "Upload" /\ resp'.id = u
             /\ resp'.err = "chunk before metadata"
             /\ ~resp'.success
             /\ SameRecords(Names)
             /\ SameBlobs
             /\ dir' = dir]_vars

\* an Upload has returned the error of a chunk before metadata while a
\* committed file exists
C13_Witness ==
    /\ resp.op = "Upload" /\ resp.err = "chunk before metadata" /\ ~resp.success
    /\ \E g \in Names : HasRecord(g) /\ HasBlob(g)

\* C14: every record that an Upload adds to the store, at its Create after
\* the end of the stream, has a filename that is not empty and holds no path
\* separator.
C14_CommittedNameValid ==
    [][\A u \in Uploads : \A f \in Names :
          (up[u].pc = "create" /\ up[u].filename = f
           /\ files[f] = NoAddr /\ files'[f] # NoAddr)
          => /\ f # NameEmpty
             /\ \A i \in 1 .. Len(f) : f[i] # "/"]_vars

\* C15: the step that starts a Download of a filename without record ends
\* the Download: it returns the error "file not found" and has sent no
\* message on the stream.
C15_DownloadNotFound ==
    [][\A d \in Downloads : \A f \in Names :
          (/\ dl[d].pc = "idle" /\ resp = NoResp /\ ~HasRecord(f)
           /\ \/ dl'[d].pc # "idle" /\ dl'[d].filename = f
              \/ resp'.op = "Download" /\ resp'.id = d /\ resp'.arg = f)
          => /\ dl'[d] = IdleDownload
             /\ resp'.op = "Download" /\ resp'.id = d /\ resp'.arg = f
             /\ resp'.err = "file not found"
             /\ resp'.msgs = << >>]_vars

\* a Download has returned "file not found" with no message for a filename
\* that has a blob and no record
C15_Witness ==
    /\ resp.op = "Download" /\ resp.arg = NameA
    /\ resp.err = "file not found" /\ resp.msgs = << >>
    /\ ~HasRecord(NameA) /\ HasBlob(NameA)

\* C16: a Download in its read loop has sent the metadata message of the
\* record Get returned, first and once, and then only chunk messages, each
\* of at least one and at most defaultChunkSize bytes, that are together
\* the bytes of the blob before the offset of the file; a Download that
\* returns without error has sent the metadata message with the filename
\* and the size of the record, first and once, and then such chunk
\* messages that are together the contents of the blob.
C16_DownloadStream ==
    /\ \A d \in Downloads :
          dl[d].pc = "read"
          => LET m == dl[d].msgs
             IN /\ Len(m) >= 1
                /\ m[1] = MetadataMsg(dl[d].meta)
                /\ dl[d].meta.Filename = dl[d].filename
                /\ \A i \in 2 .. Len(m) :
                      /\ m[i].type = "chunk"
                      /\ Len(m[i].chunk) \in 1 .. defaultChunkSize
                /\ dl[d].off <= Len(data[dl[d].file])
                /\ ChunkBytes(m) = SubSeq(data[dl[d].file], 1, dl[d].off)
    /\ (resp.op = "Download" /\ resp.err = ErrNil)
       => LET m == resp.msgs
              f == resp.arg
          IN /\ HasRecord(f) /\ HasBlob(f)
             /\ Len(m) >= 1
             /\ m[1] = [type |-> "metadata", filename |-> f, size |-> Record(f).Size]
             /\ \A i \in 2 .. Len(m) :
                   /\ m[i].type = "chunk"
                   /\ Len(m[i].chunk) \in 1 .. defaultChunkSize
             /\ ChunkBytes(m) = Blob(f)

\* a Download has returned without error after the metadata message of a
\* record of size one and MaxBlob chunk messages of different bytes
C16_Witness ==
    /\ resp.op = "Download" /\ resp.err = ErrNil
    /\ Len(resp.msgs) = MaxBlob + 1
    /\ resp.msgs[1].size = 1
    /\ resp.msgs[2].chunk # resp.msgs[3].chunk

\* C17: no step of a Download (its lookup, its open and first send, a turn
\* of its read loop, with every outcome) changes the store, the records,
\* the data directory or the contents of a blob.
C17_DownloadReadOnly ==
    [][\A d \in Downloads :
          (dl'[d] # dl[d] \/ (resp = NoResp /\ resp'.op = "Download" /\ resp'.id = d))
          => /\ files' = files
             /\ SameRecords(Names)
             /\ dir' = dir
             /\ SameBlobs]_vars

\* a Download of a file of MaxBlob bytes has failed in its read loop after
\* one chunk, and the file is as it was
C17_Witness ==
    /\ resp.op = "Download" /\ resp.err = "read file"
    /\ Len(resp.msgs) = 2
    /\ HasRecord(resp.arg) /\ HasBlob(resp.arg)
    /\ Len(Blob(resp.arg)) = MaxBlob

\* C18: a Delete that is about to delete the record has no blob of its
\* filename left to remove; the step of a Delete that removes the record of
\* its filename is the one after os.Remove, taken while no blob of the
\* filename exists; and no step of a Delete leaves a blob of its filename
\* without a record.
C18_BlobBeforeRecord ==
    [][\A k \in Deletes :
          LET f == del[k].filename
          IN /\ del[k].pc = "meta" => ~HasBlob(f)
             /\ (del[k].pc # "idle" /\ files[f] # NoAddr /\ files'[f] = NoAddr)
                => /\ del[k].pc = "meta"
                   /\ ~HasBlob(f)
                   /\ ~(dataDir' /\ dir'[f] # NoInode)
             /\ (del[k].pc # "idle" /\ del'[k] # del[k])
                => ((dataDir' /\ dir'[f] # NoInode) => files'[f] # NoAddr)]_vars

\* a Delete has removed the blob of a file and has not yet deleted its record
C18_Witness ==
    /\ del[1].pc = "meta" /\ del[1].filename = NameA
    /\ HasRecord(NameA) /\ ~HasBlob(NameA) /\ dataDir

\* C19: an Upload calls Create only when the end of the stream was received
\* and its file is closed, and the blob of its filename then holds the bytes
\* of every chunk message received on the stream, in their order; a step of
\* a running Upload adds a record only by that call, for the filename of
\* the Upload; and the success response is returned only by the step after
\* a Create that succeeded, while the record exists.
C19_CreateAfterClose ==
    [][\A u \in Uploads :
          LET f == up[u].filename
          IN /\ (up[u].pc = "create" /\ up'[u].pc # "create")
                => /\ up[u].file = NoInode
                   /\ up[u].sent # << >> => (HasBlob(f) /\ Blob(f) = up[u].sent)
             /\ \A g \in Names :
                   (up[u].pc # "idle" /\ files[g] = NoAddr /\ files'[g] # NoAddr)
                   => (up[u].pc = "create" /\ g = f)
             /\ (resp = NoResp /\ resp'.op = "Upload" /\ resp'.id = u /\ resp'.success)
                => (up[u].pc = "send" /\ HasRecord(f) /\ resp'.err = ErrNil)]_vars

\* C20: every call on the store takes effect in one step between its
\* invocation and its return.  The steps of the body of a writing call (the
\* check, the store) are taken while no other call is inside its body, so
\* that what the check found still holds at the store; the step of the body
\* of a reading call is taken while no writing call is inside its body.
\* The result of the call is the result of the operation applied to the
\* store as it is at that step: List(prefix) returns the records whose
\* filename starts with prefix then, Get the record then, Exists whether
\* there is one then.  No other step changes the records, and a call
\* returns the result its body computed.
C20_Linearizable ==
    [][/\ \A c \in Callers :
             LET f == cl[c].name
                 op == cl[c].op
                 alone == \A o \in Callers \ {c} :
                             cl[o].pc \notin {"check", "store", "read", "unlock"}
                 noWriter == \A o \in Callers \ {c} :
                                ~(cl[o].op \in WriteOps
                                  /\ cl[o].pc \in {"check", "store", "unlock"})
             IN /\ (cl[c].pc = "check" /\ cl'[c].pc # "check")
                   => /\ alone
                      /\ View' = View
                      /\ LET refused == IF op = "Create" THEN HasRecord(f) ELSE ~HasRecord(f)
                         IN IF refused
                            THEN /\ cl'[c].pc = "unlock"
                                 /\ cl'[c].ret = IF op = "Create" THEN ErrFileAlreadyExists
                                                 ELSE ErrFileNotFound
                            ELSE cl'[c].pc = "store"
                /\ (cl[c].pc = "store" /\ cl'[c].pc # "store")
                   => /\ alone
                      /\ cl'[c].pc = "unlock" /\ cl'[c].ret = ErrNil
                      /\ SameRecords(Names \ {f})
                      /\ HasRecord(f) <=> (op # "Create")
                      /\ IF op = "Delete" THEN files'[f] = NoAddr
                         ELSE /\ files'[f] # NoAddr
                              /\ heap'[files'[f]].Filename = f
                              /\ heap'[files'[f]].Size = cl[c].argv.Size
                /\ (cl[c].pc = "read" /\ cl'[c].pc # "read")
                   => /\ noWriter
                      /\ View' = View
                      /\ cl'[c].pc = "unlock"
                      /\ op = "Get" =>
                            IF HasRecord(f)
                            THEN cl'[c].ret = ErrNil /\ heap'[cl'[c].res[1]] = Record(f)
                            ELSE cl'[c].ret = ErrFileNotFound
                      /\ op = "Exists" =>
                            cl'[c].ret = IF HasRecord(f) THEN "true" ELSE "false"
                      /\ op = "List" =>
                            LET match == {n \in Names : HasRecord(n) /\ StartsWith(n, f)}
                                res   == cl'[c].res
                            IN /\ cl'[c].ret = ErrNil
                               /\ Len(res) = Cardinality(match)
                               /\ \A n \in match :
                                     \E i \in 1 .. Len(res) : heap'[res[i]] = Record(n)
                /\ (cl[c].pc # "ret" /\ cl'[c].pc = "ret")
                   => /\ cl[c].pc = "unlock"
                      /\ cl'[c].ret = cl[c].ret
                      /\ cl'[c].res = cl[c].res
       /\ (\A c \in Callers : ~(cl[c].pc = "store" /\ cl'[c].pc # "store"))
          => View' = View]_vars

\* a List has read the two records of the store while a Delete that the
\* other caller invoked waits for the lock
C20_Witness ==
    /\ cl[1].op = "List" /\ cl[1].pc = "unlock" /\ Len(cl[1].res) = 2
    /\ cl[2].op = "Delete" /\ cl[2].pc = "lock"
    /\ 1 \in mu.readers

\* C21: no step of an Upload whose filename has a record and a blob changes
\* that record, removes that blob or changes its bytes; and the Create of
\* such an Upload fails, so that the Upload returns an error.
C21_ReuploadKeepsFile ==
    [][\A u \in Uploads :
          LET f == up'[u].filename
          IN /\ (up[u].pc # "idle" /\ up'[u].pc # "idle" /\ up'[u] # up[u]
                 /\ HasRecord(f) /\ HasBlob(f))
                => /\ SameRecords({f})
                   /\ dataDir' /\ dir'[f] # NoInode
                   /\ data'[dir'[f]] = Blob(f)
             /\ (up[u].pc = "create" /\ up'[u].pc # "create" /\ HasRecord(up[u].filename))
                => (up'[u].pc = "cleanup" /\ SameRecords(Names))]_vars

\* C24: when an Upload that has received more than one metadata message
\* returns, and its first filename had no record and no blob when the
\* stream began and os.Create made its blob, the blob of the filename exists
\* afterwards only if the filename has a record.
C24_NoBlobLeftBehind ==
    [][\A u \in Uploads :
          LET f == up[u].filename
              second == \/ up[u].nmeta = 2
                        \/ /\ up[u].nmeta = 1
                           /\ resp'.op = "Upload" /\ resp'.id = u
                           /\ resp'.err \in {"invalid filename", "create file"}
          IN (/\ up[u].pc # "idle" /\ up'[u].pc = "idle"
              /\ up[u].fresh /\ up[u].made
              /\ second)
             => ((dataDir' /\ dir'[f] # NoInode) => files'[f] # NoAddr)]_vars

\* C23: with concurrent Deletes of a filename and no failure of the file
\* system, every Delete returns without error, either success or the
\* not-found response, and when one returns success the filename has neither
\* a record nor a blob.
C23_ConcurrentDeletes ==
    resp.op = "Delete"
    => /\ resp.err = ErrNil
       /\ resp.success \/ resp.message = "file not found"
       /\ resp.success => (~HasRecord(resp.arg) /\ ~HasBlob(resp.arg))

\* C22: with concurrent Uploads of a new filename, each of one metadata
\* message, chunks and the end of the stream, and no failure of the file
\* system: an Upload that returns success has committed the record, and
\* once every Upload has returned and the filename has a record, it has a
\* blob, whose bytes are the bytes of the chunks of the Upload that
\* committed the record.
C22_ConcurrentUploads ==
    /\ (resp.op = "Upload" /\ resp.success) => HasRecord(resp.arg)
    /\ ((\A u \in Uploads : UploadDone(u)) /\ HasRecord(NameA))
       => /\ HasBlob(NameA)
          /\ Blob(NameA) = expect[NameA]

\* C25: when every Upload writes as many bytes as it declares, so that each
\* committed upload is as long as the size of its record, a Download that
\* returns without error, in any interleaving with an Upload and a Delete
\* of the filename, has delivered as many bytes as the size in the metadata
\* message it sent, each a byte that an Upload wrote.
C25_DownloadWholeUpload ==
    (resp.op = "Download" /\ resp.err = ErrNil)
    => LET B == ChunkBytes(resp.msgs)
       IN /\ Len(resp.msgs) >= 1
          /\ resp.msgs[1].type = "metadata"
          /\ Len(B) = resp.msgs[1].size
          /\ \A i \in 1 .. Len(B) : B[i] \in Byte

===========================================================================
